---- MODULE Spec2Model ----
(***************************************************************************)
(* Liveness/recovery supervisor of the embedded WebView (AZVWebViewInner), *)
(* the ConnectionMonitorService and the fallback screen state machine      *)
(* (ConnectionManagerWrapper) of azv-native.                               *)
(*                                                                         *)
(* Time is the value of Date.now() in milliseconds.  setTimeout callbacks  *)
(* run when their delay has elapsed: time does not advance past the        *)
(* deadline of a pending timer before that timer has run.                  *)
(*                                                                         *)
(* Six specifications share the variables: SpecRecovery (the recovery      *)
(* requests and crash signals of AZVWebViewInner), SpecHeartbeat (its      *)
(* foreground probe), SpecMonitor (the monitor and the screens), SpecRetry *)
(* (the retry of the connection-error screen), SpecLifecycle (the monitor  *)
(* with its disposal) and SpecFanOut (the listeners of the monitor).       *)
(* SpecMonitorFair is SpecMonitor with the guarantees of the timers.       *)
(*                                                                         *)
(* ConnectionManagerWrapper is mounted nowhere in the sources; it is       *)
(* modelled as mounted for the whole run, with its onWebViewReload prop    *)
(* given, and the WebView's load events reach the monitor whichever screen *)
(* is shown.  Of ConnectionStatus the fields requestUrl and timestamp are  *)
(* left out (nothing reads them), as are the wrapper's isConnected state,  *)
(* the Alert of handleWebViewError and the navigation filter of            *)
(* WebViewService.                                                         *)
(***************************************************************************)
EXTENDS Integers, Sequences, FiniteSets, TLC

\* ---------------------------------------------------------------------------
\* Program constants
\* ---------------------------------------------------------------------------
DebounceMs == 1500
EscalationThreshold == 3
HeartbeatTimeoutMs == 1200
AutoErrorThreshold == 5000
ScreenThresholdMs == 5000
SlowConnectionThreshold == 5000
RetryTimeoutMs == 3000

\* ---------------------------------------------------------------------------
\* Bounds of the model
\* ---------------------------------------------------------------------------
\* Date.now() when the components are constructed (any value far above the
\* thresholds; the refs and loadStartTime start at 0).
StartNow == 100000
\* Time passes in steps of the debounce window (or up to the next timer);
\* in the supervisor's specification, in steps of half the window.
TickMs ==
    DebounceMs
HalfTickMs ==
    DebounceMs \div 2
\* Steps of time in the supervisor's specification.
MaxTicksRecovery == 5
\* Steps of time in the heartbeat's specification.
MaxTicksHeartbeat == 2
\* Steps of time in the monitor's specification.
MaxTicksMonitor == 4
\* Steps of time in the specification of the listeners, each as long as the
\* delay of the automatic-error timer.
MaxTicksFanOut == 1
\* Steps of time in the retry's specification, each as long as the retry's
\* timeout.
MaxTicksRetry == 2
\* Renderer commands issued (reloadInPlace / recreateSurface) per run.
MaxCmds == 4
\* Acknowledgment ("pong") messages per run.
MaxPongs == 2
\* Heartbeat timers pending at once.
MaxProbes == 2

\* Wrapper state and retry bookkeeping.
\* Retry probes started per run.
MaxRetries == 2

VARIABLES
    now,                \* Date.now()
    \* --- AZVWebViewInner ---
    mounted,            \* the component is mounted (handlers and effects live)
    webViewRef,         \* webViewRef.current is a WebView instance (not null)
    webKey,             \* key of the <WebView>: changing it recreates the surface
    isLoading,          \* splash flag set by softReload / hardRemount
    lastReloadRef,      \* lastReloadRef.current
    reloadAttemptsRef,  \* reloadAttemptsRef.current
    pongCounterRef,     \* pongCounterRef.current
    subscribed,         \* the AppState "change" listener is registered
    injections,         \* calls of injectJavaScript on the WebView
    hbTimers,           \* pending heartbeat setTimeouts, oldest first
    cmds,               \* commands issued to the renderer, in order
    \* --- ConnectionMonitorService ---
    connectionStatus,   \* [isConnected, loadingTime, isSlowConnection]
    loadStartTime,
    autoErrorTimeout,   \* [armed, pending, deadline] of the setTimeout handle,
                        \* and the number of timers the runtime has scheduled
    isInitialLoad,
    shouldShowErrorOnTimeout,
    listeners,          \* the registered ConnectionListeners, in order
    delivered,          \* the onConnectionChange calls of the last publication:
                        \* [listener, status], in order
    \* --- ConnectionManagerWrapper ---
    currentScreen,
    isRetrying,
    retry,              \* handleTryAgain's race and what outlives it
    reloadRequests,     \* calls of the onWebViewReload prop
    \* --- history ---
    ev,                 \* the handler that ran last
    evError,            \* the error handed to it (handleWebViewError)
    evStatus,           \* the status code handed to it (onHttpError)
    screenBefore,       \* the screen that handler found
    req,                \* the safeReload call that handler made
    preAttempts,        \* reloadAttemptsRef when safeReload was called or
                        \* the load ended
    lastReqTime,        \* Date.now() of the previous safeReload call, while
                        \* fewer than DebounceMs ago
    run,                \* commands of the accepted non-forced safeReload
                        \* calls since reloadAttemptsRef was last set to 0
    cycleOpen,          \* onLoadStart seen, its onLoadEnd/onLoadError not yet
    cleanEnd,           \* the last load cycle ended by onLoadEnd with its
                        \* automatic-error timer still pending
    timerInCycle,       \* the automatic-error timer of the last load cycle
                        \* moved the screen to connection-error
    ceInCycle           \* a monitor event of the last load cycle moved the
                        \* screen to connection-error

supVars == <<mounted, webViewRef, webKey, isLoading, lastReloadRef,
             reloadAttemptsRef, pongCounterRef, subscribed, injections,
             hbTimers, cmds>>

monVars == <<connectionStatus, loadStartTime, autoErrorTimeout, isInitialLoad,
             shouldShowErrorOnTimeout, listeners, delivered>>

wrapVars == <<currentScreen, isRetrying, retry, reloadRequests>>

cycleVars == <<cycleOpen, cleanEnd, timerInCycle, ceInCycle>>

histVars == <<ev, evError, evStatus, screenBefore, req, preAttempts, lastReqTime, run, cycleVars>>

vars == <<now, supVars, monVars, wrapVars, histVars>>

\* An absent (undefined) number.
Undefined == 0 - 1

\* ---------------------------------------------------------------------------
\* Recovery Escalation Controller (AZVWebViewInner)
\* ---------------------------------------------------------------------------

\* setIsLoading(true); setWebKey(k => k + 1).  React ignores the state
\* setters of a component that is no longer mounted.
hardRemount ==
    IF mounted
      THEN /\ isLoading' = TRUE
           /\ webKey' = webKey + 1
           /\ cmds' = Append(cmds, "recreateSurface")
      ELSE UNCHANGED <<isLoading, webKey, cmds>>

\* setIsLoading(true); webViewRef.current ? reload() : hardRemount()
softReload ==
    IF webViewRef
      THEN /\ isLoading' = TRUE
           /\ cmds' = Append(cmds, "reloadInPlace")
           /\ webKey' = webKey
      ELSE hardRemount

\* The condition of safeReload's early return.
debounced ==
    now - lastReloadRef < DebounceMs

\* safeReload with the window applied to the non-forced requests only.
safeReload_ForcedSkipsDebounce(hard) ==
    IF debounced /\ ~hard
      THEN UNCHANGED <<lastReloadRef, reloadAttemptsRef, isLoading, webKey, cmds>>
      ELSE /\ lastReloadRef' = now
           /\ IF hard \/ reloadAttemptsRef + 1 >= EscalationThreshold
                THEN /\ reloadAttemptsRef' = 0
                     /\ hardRemount
                ELSE /\ reloadAttemptsRef' = reloadAttemptsRef + 1
                     /\ softReload

\* safeReload escalating one attempt late (> instead of >=).
safeReload_LateEscalation(hard) ==
    IF debounced
      THEN UNCHANGED <<lastReloadRef, reloadAttemptsRef, isLoading, webKey, cmds>>
      ELSE /\ lastReloadRef' = now
           /\ IF hard \/ reloadAttemptsRef + 1 > EscalationThreshold
                THEN /\ reloadAttemptsRef' = 0
                     /\ hardRemount
                ELSE /\ reloadAttemptsRef' = reloadAttemptsRef + 1
                     /\ softReload

\* safeReload deciding on the attempt count alone, the hard argument unused.
safeReload_IgnoresHard(hard) ==
    IF debounced
      THEN UNCHANGED <<lastReloadRef, reloadAttemptsRef, isLoading, webKey, cmds>>
      ELSE /\ lastReloadRef' = now
           /\ IF reloadAttemptsRef + 1 >= EscalationThreshold
                THEN /\ reloadAttemptsRef' = 0
                     /\ hardRemount
                ELSE /\ reloadAttemptsRef' = reloadAttemptsRef + 1
                     /\ softReload

\* safeReload(hard): the supervisor's requestRecovery(forceHard).
safeReload(hard) ==
    IF debounced
      THEN UNCHANGED <<lastReloadRef, reloadAttemptsRef, isLoading, webKey, cmds>>
      ELSE /\ lastReloadRef' = now
           /\ IF hard \/ reloadAttemptsRef + 1 >= EscalationThreshold
                THEN /\ reloadAttemptsRef' = 0
                     /\ hardRemount
                ELSE /\ reloadAttemptsRef' = reloadAttemptsRef + 1
                     /\ softReload

\* No recovery command is issued.
noRecovery ==
    UNCHANGED <<lastReloadRef, reloadAttemptsRef, isLoading, webKey, cmds>>

\* History of a handler that called safeReload(hard), having been handed
\* the status code; read after safeReload.
noteRequestWith(name, hard, status) ==
    /\ ev' = name
    /\ evError' = "none"
    /\ evStatus' = status
    /\ screenBefore' = currentScreen
    /\ req' = IF hard THEN "forced" ELSE "request"
    /\ preAttempts' = reloadAttemptsRef
    /\ lastReqTime' = now
    /\ run' = IF cmds' = cmds THEN run
              ELSE IF hard THEN <<>>
              ELSE IF Len(run) >= EscalationThreshold
                     THEN <<cmds'[Len(cmds')]>>
                     ELSE Append(run, cmds'[Len(cmds')])

\* History of a handler that called safeReload(hard).
noteRequest(name, hard) ==
    noteRequestWith(name, hard, Undefined)

\* History of a handler that did not call safeReload, having been handed the
\* error and the status code.
noteEventWith(name, error, status) ==
    /\ ev' = name
    /\ evError' = error
    /\ evStatus' = status
    /\ screenBefore' = currentScreen
    /\ req' = "none"
    /\ preAttempts' = 0
    /\ UNCHANGED lastReqTime

\* History of a handler that did not call safeReload.
noteEvent(name, error) ==
    noteEventWith(name, error, Undefined)

\* Room left in the command log.
canCommand ==
    Len(cmds) < MaxCmds

\* ---------------------------------------------------------------------------
\* ConnectionMonitorService
\* ---------------------------------------------------------------------------

NullTimer ==
    [armed |-> FALSE, pending |-> FALSE, deadline |-> 0, scheduled |-> 0]

\* The handle after clearAutoErrorTimeout(): clearTimeout takes the timer of
\* the handle, if it has not run, off the timers the runtime has scheduled.
cleared ==
    [NullTimer EXCEPT !.scheduled =
        autoErrorTimeout.scheduled - (IF autoErrorTimeout.pending THEN 1 ELSE 0)]

\* The handle after this.autoErrorTimeout = setTimeout(..., autoErrorThreshold)
armTimer(t) ==
    [armed |-> TRUE, pending |-> TRUE, deadline |-> now + AutoErrorThreshold,
     scheduled |-> t.scheduled + 1]

\* clearAutoErrorTimeout(): clearTimeout and forget the handle.
clearAutoErrorTimeout ==
    autoErrorTimeout' = cleared

\* isInitialAppLoad(), as the listener reads it during a publication.
isInitialAppLoad ==
    isInitialLoad'

\* s.includes(p) on strings held as sequences of characters.
Includes(s, p) ==
    \E i \in 1..(Len(s) - Len(p) + 1) : SubSeq(s, i, i + Len(p) - 1) = p

S500 ==
    <<"5", "0", "0">>
S502 ==
    <<"5", "0", "2">>
S503 ==
    <<"5", "0", "3">>
S504 ==
    <<"5", "0", "4">>
SOffline ==
    <<"T", "h", "e", " ", "I", "n", "t", "e", "r", "n", "e", "t", " ", "c", "o", "n", "n", "e", "c", "t", "i", "o", "n", " ", "a", "p", "p", "e", "a", "r", "s", " ", "t", "o", " ", "b", "e", " ", "o", "f", "f", "l", "i", "n", "e">>
SCouldNotConnect ==
    <<"C", "o", "u", "l", "d", " ", "n", "o", "t", " ", "c", "o", "n", "n", "e", "c", "t", " ", "t", "o", " ", "t", "h", "e", " ", "s", "e", "r", "v", "e", "r">>
SNotResponding ==
    <<"s", "e", "r", "v", "e", "r", " ", "i", "s", " ", "n", "o", "t", " ", "r", "e", "s", "p", "o", "n", "d", "i", "n", "g">>
SConnectionLost ==
    <<"n", "e", "t", "w", "o", "r", "k", " ", "c", "o", "n", "n", "e", "c", "t", "i", "o", "n", " ", "w", "a", "s", " ", "l", "o", "s", "t">>

\* The errors the renderer reports in the model: nativeEvent.description (the
\* empty sequence when absent) and nativeEvent.code.
ErrorNames ==
    {"http503", "port15000", "offline", "cancelled", "nodescription"}

ErrorValue(name) ==
    CASE name = "http503" ->
           [description |-> <<"H", "T", "T", "P", " ", "5", "0", "3">>, code |-> 0 - 1011]
      [] name = "port15000" ->
           [description |-> <<"p", "o", "r", "t", " ", "1", "5", "0", "0", "0">>, code |-> 0 - 2]
      [] name = "offline" ->
           [description |-> <<"o", "f", "f", "l", "i", "n", "e">>, code |-> 0 - 1009]
      [] name = "cancelled" ->
           [description |-> <<"c", "a", "n", "c", "e", "l", "l", "e", "d">>, code |-> 0 - 999]
      [] OTHER ->
           [description |-> <<>>, code |-> 0 - 6]

\* The isServerDown expression of checkIfServerIsDown(error).
isServerDown(error) ==
    \/ Includes(error.description, S500)
    \/ Includes(error.description, S502)
    \/ Includes(error.description, S503)
    \/ Includes(error.description, S504)
    \/ Includes(error.description, SOffline)
    \/ Includes(error.description, SCouldNotConnect)
    \/ Includes(error.description, SNotResponding)
    \/ Includes(error.description, SConnectionLost)
    \/ error.code = 0 - 1009
    \/ error.code = 0 - 1001
    \/ error.code = 0 - 1004

\* global.connectionManager.showConnectionError()
showConnectionError(screen) ==
    "connection-error"

\* The listener showing connection-error on a disconnect or a slow load
\* whether or not the load is the initial one.
onConnectionChange_AnyLoad(status, screen) ==
    LET truthy == status.loadingTime # Undefined /\ status.loadingTime # 0
    IN  IF ~status.isConnected
           \/ (truthy /\ status.loadingTime > ScreenThresholdMs)
          THEN "connection-error"
          ELSE IF status.isConnected /\ truthy
                  /\ status.loadingTime <= ScreenThresholdMs
                 THEN "webview"
                 ELSE screen

\* The listener going back to webview on any connected status, its loading
\* time not compared.
onConnectionChange_AnyConnected(status, screen) ==
    LET truthy == status.loadingTime # Undefined /\ status.loadingTime # 0
    IN  IF isInitialAppLoad
           /\ (~status.isConnected
               \/ (truthy /\ status.loadingTime > ScreenThresholdMs))
          THEN "connection-error"
          ELSE IF status.isConnected
                 THEN "webview"
                 ELSE screen

\* The wrapper's connectionListener.onConnectionChange(status): the screen
\* it leaves, given the screen it finds.
onConnectionChange(status, screen) ==
    LET truthy == status.loadingTime # Undefined /\ status.loadingTime # 0
    IN  IF isInitialAppLoad
           /\ (~status.isConnected
               \/ (truthy /\ status.loadingTime > ScreenThresholdMs))
          THEN "connection-error"
          ELSE IF status.isConnected /\ truthy
                  /\ status.loadingTime <= ScreenThresholdMs
                 THEN "webview"
                 ELSE screen

\* The listeners of the model: the wrapper's connectionListener, one more
\* that returns normally and one whose onConnectionChange throws.
ListenerIds ==
    {"wrapper", "plain", "throwing"}

\* Whether onConnectionChange of the listener throws.
throws(listener) ==
    listener = "throwing"

\* listeners.forEach without the try/catch: the first exception ends the loop.
RECURSIVE forEach_NoCatch(_, _, _)
forEach_NoCatch(ls, i, status) ==
    IF i > Len(ls)
      THEN <<>>
      ELSE <<[listener |-> ls[i], status |-> status]>>
             \o (IF throws(ls[i]) THEN <<>> ELSE forEach_NoCatch(ls, i + 1, status))

\* listeners.forEach(listener => { try { listener.onConnectionChange(status) }
\* catch (error) { console.error(...) } }), from index i on: the calls made.
RECURSIVE forEach(_, _, _)
forEach(ls, i, status) ==
    IF i > Len(ls)
      THEN <<>>
      ELSE <<[listener |-> ls[i], status |-> status]>>
             \o forEach(ls, i + 1, status)

\* updateConnectionStatus(status): merge the partial status into the current
\* one and notify the listeners with the merged status.
updateConnectionStatus(status) ==
    /\ connectionStatus' =
         [f \in DOMAIN connectionStatus |->
            IF f \in DOMAIN status THEN status[f] ELSE connectionStatus[f]]
    /\ delivered' = forEach(listeners, 1, connectionStatus')
    /\ UNCHANGED listeners

\* The screen the wrapper's listener leaves when the publication reaches it.
notified ==
    IF \E i \in 1..Len(delivered') : delivered'[i].listener = "wrapper"
      THEN onConnectionChange(connectionStatus', currentScreen)
      ELSE currentScreen

\* ConnectionMonitorService.addListener(listener); no caller registers a
\* listener that is registered already.
addListener(listener) ==
    /\ \A i \in 1..Len(listeners) : listeners[i] # listener
    /\ listeners' = Append(listeners, listener)
    /\ ev' = "addListener"
    /\ evError' = "none"
    /\ evStatus' = Undefined
    /\ screenBefore' = currentScreen
    /\ req' = "none"
    /\ preAttempts' = 0
    /\ UNCHANGED <<now, supVars, connectionStatus, loadStartTime,
                   autoErrorTimeout, isInitialLoad, shouldShowErrorOnTimeout,
                   delivered, wrapVars, lastReqTime, run, cycleVars>>

\* ConnectionMonitorService.removeListener(listener)
removeListener(listener) ==
    /\ listeners' =
         IF \E i \in 1..Len(listeners) : listeners[i] = listener
           THEN LET index == CHOOSE i \in 1..Len(listeners) :
                                /\ listeners[i] = listener
                                /\ \A j \in 1..(i - 1) : listeners[j] # listener
                IN  SubSeq(listeners, 1, index - 1)
                      \o SubSeq(listeners, index + 1, Len(listeners))
           ELSE listeners
    /\ ev' = "removeListener"
    /\ evError' = "none"
    /\ evStatus' = Undefined
    /\ screenBefore' = currentScreen
    /\ req' = "none"
    /\ preAttempts' = 0
    /\ UNCHANGED <<now, supVars, connectionStatus, loadStartTime,
                   autoErrorTimeout, isInitialLoad, shouldShowErrorOnTimeout,
                   delivered, wrapVars, lastReqTime, run, cycleVars>>

\* checkIfServerIsDown(error): the screen it leaves, given the one it finds.
checkIfServerIsDown(error, screen) ==
    IF isServerDown(error) THEN showConnectionError(screen) ELSE screen

\* onLoadStart arming the timer whenever the automatic error is enabled.
onLoadStart_ArmsAfterInitialLoad ==
    /\ loadStartTime' = now
    /\ autoErrorTimeout' =
         IF shouldShowErrorOnTimeout THEN armTimer(cleared) ELSE cleared
    /\ UNCHANGED <<isInitialLoad, shouldShowErrorOnTimeout>>
    /\ updateConnectionStatus([isConnected |-> TRUE, isSlowConnection |-> FALSE])
    /\ currentScreen' = notified

\* onLoadStart without its clearAutoErrorTimeout().
onLoadStart_KeepsOldTimer ==
    /\ loadStartTime' = now
    /\ autoErrorTimeout' =
         IF isInitialLoad /\ shouldShowErrorOnTimeout
           THEN armTimer(autoErrorTimeout)
           ELSE autoErrorTimeout
    /\ UNCHANGED <<isInitialLoad, shouldShowErrorOnTimeout>>
    /\ updateConnectionStatus([isConnected |-> TRUE, isSlowConnection |-> FALSE])
    /\ currentScreen' = notified

\* ConnectionMonitorService.onLoadStart(url)
onLoadStart ==
    /\ loadStartTime' = now
    /\ autoErrorTimeout' =
         IF isInitialLoad /\ shouldShowErrorOnTimeout
           THEN armTimer(cleared)
           ELSE cleared
    /\ UNCHANGED <<isInitialLoad, shouldShowErrorOnTimeout>>
    /\ updateConnectionStatus([isConnected |-> TRUE, isSlowConnection |-> FALSE])
    /\ currentScreen' = notified

\* ConnectionMonitorService.onLoadEnd(url)
onLoadEnd ==
    LET loadingTime == now - loadStartTime
    IN  /\ clearAutoErrorTimeout
        /\ isInitialLoad' = FALSE
        /\ UNCHANGED <<loadStartTime, shouldShowErrorOnTimeout>>
        /\ updateConnectionStatus(
             [isConnected |-> TRUE, loadingTime |-> loadingTime,
              isSlowConnection |-> loadingTime > SlowConnectionThreshold])
        /\ currentScreen' = notified

\* ConnectionMonitorService.onLoadError(error, url)
onLoadError(error) ==
    LET loadingTime == IF loadStartTime > 0 THEN now - loadStartTime
                                            ELSE Undefined
    IN  /\ clearAutoErrorTimeout
        /\ UNCHANGED <<loadStartTime, isInitialLoad, shouldShowErrorOnTimeout>>
        /\ updateConnectionStatus(
             [isConnected |-> FALSE, loadingTime |-> loadingTime,
              isSlowConnection |-> TRUE])
        /\ currentScreen' = checkIfServerIsDown(error, notified)

\* reset() starting a new initial load.
reset_RestoresInitialLoad ==
    /\ loadStartTime' = 0
    /\ clearAutoErrorTimeout
    /\ connectionStatus' = [isConnected |-> TRUE, loadingTime |-> Undefined,
                            isSlowConnection |-> FALSE]
    /\ isInitialLoad' = TRUE
    /\ UNCHANGED delivered

\* reset() leaving the connection status as it finds it.
reset_KeepsStatus ==
    /\ loadStartTime' = 0
    /\ clearAutoErrorTimeout
    /\ UNCHANGED connectionStatus
    /\ UNCHANGED <<isInitialLoad, delivered>>

\* ConnectionMonitorService.reset()
reset ==
    /\ loadStartTime' = 0
    /\ clearAutoErrorTimeout
    /\ connectionStatus' = [isConnected |-> TRUE, loadingTime |-> Undefined,
                            isSlowConnection |-> FALSE]
    /\ UNCHANGED <<isInitialLoad, delivered>>

\* ConnectionMonitorService.dispose(): the listeners are dropped, then
\* clearAutoErrorTimeout() and reset().
dispose ==
    /\ listeners' = <<>>
    /\ clearAutoErrorTimeout
    /\ reset
    /\ UNCHANGED shouldShowErrorOnTimeout

\* Whether this step moves the screen to connection-error.
enteredCE ==
    currentScreen # "connection-error" /\ currentScreen' = "connection-error"

\* History of the load cycles, for a monitor event that ends the cycle
\* (clean: by onLoadEnd) or not (the callback of the automatic-error timer).
noteCycle(ends, clean) ==
    /\ cycleOpen' = (cycleOpen /\ ~ends)
    /\ cleanEnd' = IF cycleOpen /\ ends
                     THEN clean /\ autoErrorTimeout.pending
                     ELSE cleanEnd
    /\ ceInCycle' = IF cycleOpen THEN ceInCycle \/ enteredCE ELSE ceInCycle
    /\ timerInCycle' = (timerInCycle \/ (cycleOpen /\ ~ends /\ enteredCE))

\* ---------------------------------------------------------------------------
\* Time and timers
\* ---------------------------------------------------------------------------

\* Deadlines of the setTimeouts that have not run yet.
Deadlines ==
    {hbTimers[i].deadline : i \in 1..Len(hbTimers)}
      \cup (IF autoErrorTimeout.pending THEN {autoErrorTimeout.deadline} ELSE {})
      \cup (IF retry.waiting THEN {retry.deadline} ELSE {})
      \cup retry.orphanTimers

Min(S) ==
    CHOOSE x \in S : \A y \in S : x <= y

\* Time passes: by tickMs, or up to the next deadline when that is sooner.
\* Once the component is unmounted only the pending timers are left to run.
Tick(tickMs, maxTicks) ==
    /\ now < StartNow + maxTicks * tickMs
    /\ mounted \/ Deadlines # {}
    /\ \A d \in Deadlines : now < d
    /\ now' = Min({now + tickMs} \cup Deadlines)
    /\ ev' = "tick"
    /\ evError' = "none"
    /\ evStatus' = Undefined
    /\ screenBefore' = currentScreen
    /\ req' = "none"
    /\ preAttempts' = 0
    /\ lastReqTime' = IF lastReqTime # Undefined /\ now' - lastReqTime < DebounceMs
                        THEN lastReqTime ELSE Undefined
    /\ UNCHANGED <<supVars, monVars, wrapVars, run, cycleVars>>

\* ---------------------------------------------------------------------------
\* Handlers of AZVWebViewInner
\* ---------------------------------------------------------------------------

HttpStatuses ==
    {0, 404, 499, 500, 503}

\* onHttpError requesting a reload for the client errors too.
onHttpError_ClientErrors(status) ==
    /\ mounted
    /\ canCommand
    /\ IF status >= 400 \/ status = 0
         THEN /\ safeReload(FALSE)
              /\ noteRequestWith("onHttpError", FALSE, status)
         ELSE /\ noRecovery
              /\ noteEventWith("onHttpError", "none", status)
              /\ UNCHANGED run
    /\ UNCHANGED <<now, mounted, webViewRef, pongCounterRef, subscribed, injections, hbTimers,
                   monVars, wrapVars, cycleVars>>

\* onHttpError(e), e.nativeEvent.statusCode = status
onHttpError(status) ==
    /\ mounted
    /\ canCommand
    /\ IF status >= 500 \/ status = 0
         THEN /\ safeReload(FALSE)
              /\ noteRequestWith("onHttpError", FALSE, status)
         ELSE /\ noRecovery
              /\ noteEventWith("onHttpError", "none", status)
              /\ UNCHANGED run
    /\ UNCHANGED <<now, mounted, webViewRef, pongCounterRef, subscribed, injections, hbTimers,
                   monVars, wrapVars, cycleVars>>

\* onContentProcessDidTerminate()
onContentProcessDidTerminate ==
    /\ mounted
    /\ canCommand
    /\ safeReload(TRUE)
    /\ noteRequest("onContentProcessDidTerminate", TRUE)
    /\ UNCHANGED <<now, mounted, webViewRef, pongCounterRef, subscribed, injections, hbTimers,
                   monVars, wrapVars, cycleVars>>

\* onRenderProcessGone(e), e.nativeEvent.didCrash = didCrash
onRenderProcessGone(didCrash) ==
    /\ mounted
    /\ canCommand
    /\ IF didCrash THEN hardRemount ELSE softReload
    /\ noteEvent(IF didCrash THEN "onRenderProcessGone:crash"
                             ELSE "onRenderProcessGone", "none")
    /\ UNCHANGED <<now, mounted, webViewRef, lastReloadRef, reloadAttemptsRef,
                   pongCounterRef, subscribed, injections, hbTimers, run, monVars, wrapVars, cycleVars>>

\* The listener giving a probe the snapshot of the probe still outstanding.
AppStateChange_SharedSnapshot(s) ==
    /\ subscribed
    /\ IF s = "active"
         THEN /\ Len(hbTimers) < MaxProbes
              /\ injections' = IF webViewRef THEN injections + 1
                                              ELSE injections
              /\ hbTimers' = Append(hbTimers,
                   [before |-> IF hbTimers = <<>> THEN pongCounterRef
                                                  ELSE Head(hbTimers).before,
                    deadline |-> now + HeartbeatTimeoutMs])
         ELSE UNCHANGED <<injections, hbTimers>>
    /\ noteEvent(IF s = "active" THEN "foreground" ELSE "background", "none")
    /\ UNCHANGED <<now, mounted, webViewRef, webKey, isLoading, lastReloadRef,
                   reloadAttemptsRef, pongCounterRef, subscribed, cmds, run,
                   monVars, wrapVars, cycleVars>>

\* The AppState "change" listener: a heartbeat probe on "active".
AppStateChange(s) ==
    /\ subscribed
    /\ IF s = "active"
         THEN /\ Len(hbTimers) < MaxProbes
              /\ injections' = IF webViewRef THEN injections + 1
                                              ELSE injections
              /\ hbTimers' = Append(hbTimers,
                   [before |-> pongCounterRef,
                    deadline |-> now + HeartbeatTimeoutMs])
         ELSE UNCHANGED <<injections, hbTimers>>
    /\ noteEvent(IF s = "active" THEN "foreground" ELSE "background", "none")
    /\ UNCHANGED <<now, mounted, webViewRef, webKey, isLoading, lastReloadRef,
                   reloadAttemptsRef, pongCounterRef, subscribed, cmds, run,
                   monVars, wrapVars, cycleVars>>

\* The callback requesting a reload without comparing the counter.
HeartbeatTimeout_IgnoresPong ==
    /\ hbTimers # <<>>
    /\ now >= Head(hbTimers).deadline
    /\ canCommand
    /\ hbTimers' = Tail(hbTimers)
    /\ safeReload(FALSE)
    /\ noteRequest("heartbeatTimeout", FALSE)
    /\ UNCHANGED <<now, mounted, webViewRef, pongCounterRef, subscribed, injections,
                   monVars, wrapVars, cycleVars>>

\* The callback of the probe's setTimeout(..., 1200).
HeartbeatTimeout ==
    /\ hbTimers # <<>>
    /\ now >= Head(hbTimers).deadline
    /\ canCommand
    /\ hbTimers' = Tail(hbTimers)
    /\ IF pongCounterRef = Head(hbTimers).before
         THEN /\ safeReload(FALSE)
              /\ noteRequest("heartbeatTimeout", FALSE)
         ELSE /\ noRecovery
              /\ noteEvent("heartbeatTimeout", "none")
              /\ UNCHANGED run
    /\ UNCHANGED <<now, mounted, webViewRef, pongCounterRef, subscribed, injections,
                   monVars, wrapVars, cycleVars>>

\* WebViewService.handleAccessToken / handleLogout: the part that reaches
\* the monitor.
setShouldShowErrorOnTimeout(shouldShow) ==
    shouldShowErrorOnTimeout' = shouldShow

\* handleMessage(event): a pong is counted, anything else goes to
\* WebViewService.handleWebViewMessage.
handleMessage(m) ==
    /\ mounted
    /\ IF m = "pong"
         THEN /\ pongCounterRef < MaxPongs
              /\ pongCounterRef' = pongCounterRef + 1
              /\ UNCHANGED shouldShowErrorOnTimeout
         ELSE /\ setShouldShowErrorOnTimeout(FALSE)
              /\ UNCHANGED pongCounterRef
    /\ noteEvent(m, "none")
    /\ UNCHANGED <<now, mounted, webViewRef, webKey, isLoading, lastReloadRef,
                   reloadAttemptsRef, subscribed, injections, hbTimers, cmds,
                   run, connectionStatus, loadStartTime, autoErrorTimeout,
                   isInitialLoad, listeners, delivered, currentScreen,
                   isRetrying, retry, reloadRequests, cycleVars>>

\* handleWebViewLoadStart -> WebViewService.handleLoadStart
handleWebViewLoadStart ==
    /\ mounted
    /\ onLoadStart
    /\ noteEvent("onLoadStart", "none")
    /\ cycleOpen' = TRUE
    /\ cleanEnd' = FALSE
    /\ ceInCycle' = enteredCE
    /\ timerInCycle' = FALSE
    /\ UNCHANGED <<now, supVars, run, isRetrying, retry, reloadRequests>>

\* handleWebViewLoadEnd leaving reloadAttemptsRef as it finds it.
handleWebViewLoadEnd_KeepsAttempts ==
    /\ mounted
    /\ UNCHANGED reloadAttemptsRef
    /\ onLoadEnd
    /\ ev' = "onLoadEnd"
    /\ evError' = "none"
    /\ evStatus' = Undefined
    /\ screenBefore' = currentScreen
    /\ req' = "none"
    /\ preAttempts' = reloadAttemptsRef
    /\ UNCHANGED lastReqTime
    /\ run' = <<>>
    /\ noteCycle(TRUE, TRUE)
    /\ UNCHANGED <<now, mounted, webViewRef, webKey, isLoading, lastReloadRef,
                   pongCounterRef, subscribed, injections, hbTimers, cmds,
                   isRetrying, retry, reloadRequests>>

\* handleWebViewLoadEnd -> WebViewService.handleLoadEnd
handleWebViewLoadEnd ==
    /\ mounted
    /\ reloadAttemptsRef' = 0
    /\ onLoadEnd
    /\ ev' = "onLoadEnd"
    /\ evError' = "none"
    /\ evStatus' = Undefined
    /\ screenBefore' = currentScreen
    /\ req' = "none"
    /\ preAttempts' = reloadAttemptsRef
    /\ UNCHANGED lastReqTime
    /\ run' = <<>>
    /\ noteCycle(TRUE, TRUE)
    /\ UNCHANGED <<now, mounted, webViewRef, webKey, isLoading, lastReloadRef,
                   pongCounterRef, subscribed, injections, hbTimers, cmds,
                   isRetrying, retry, reloadRequests>>

\* handleWebViewError -> WebViewService.handleError
handleWebViewError(name) ==
    /\ mounted
    /\ onLoadError(ErrorValue(name))
    /\ noteEvent("onLoadError", name)
    /\ noteCycle(TRUE, FALSE)
    /\ UNCHANGED <<now, supVars, run, isRetrying, retry, reloadRequests>>

\* The callback of onLoadStart's setTimeout(..., autoErrorThreshold).
AutoErrorTimeout ==
    /\ autoErrorTimeout.pending
    /\ now >= autoErrorTimeout.deadline
    /\ autoErrorTimeout' =
         [autoErrorTimeout EXCEPT !.pending = FALSE,
                                  !.scheduled = autoErrorTimeout.scheduled - 1]
    /\ currentScreen' = showConnectionError(currentScreen)
    /\ noteEvent("autoErrorTimeout", "none")
    /\ noteCycle(FALSE, FALSE)
    /\ UNCHANGED <<now, supVars, run, connectionStatus, loadStartTime,
                   isInitialLoad, shouldShowErrorOnTimeout, listeners,
                   delivered, isRetrying, retry, reloadRequests>>

\* A call of ConnectionMonitorService.getInstance().dispose().
Dispose ==
    /\ dispose
    /\ noteEvent("dispose", "none")
    /\ UNCHANGED <<now, supVars, wrapVars, run, cycleVars>>

\* The component leaves the tree: the ref callback runs with null in the
\* commit; the cleanups of its effects run afterwards (EffectCleanup).
Unmount ==
    /\ mounted
    /\ mounted' = FALSE
    /\ webViewRef' = FALSE
    /\ noteEvent("unmount", "none")
    /\ UNCHANGED <<now, webKey, isLoading, lastReloadRef, reloadAttemptsRef,
                   pongCounterRef, subscribed, injections, hbTimers, cmds, run,
                   monVars, wrapVars, cycleVars>>

\* The cleanup of the AppState effect, sub.remove(), run by React after the
\* commit that unmounted the component.
EffectCleanup ==
    /\ ~mounted
    /\ subscribed
    /\ subscribed' = FALSE
    /\ noteEvent("cleanup", "none")
    /\ UNCHANGED <<now, mounted, webViewRef, webKey, isLoading, lastReloadRef,
                   reloadAttemptsRef, pongCounterRef, injections, hbTimers,
                   cmds, run, monVars, wrapVars, cycleVars>>

\* ---------------------------------------------------------------------------
\* Handlers of ConnectionManagerWrapper
\* ---------------------------------------------------------------------------

NoRetry ==
    [waiting |-> FALSE, deadline |-> 0, orphanTimers |-> {}, lateFetches |-> 0]

\* Promise.race settled by the fetch: the setTimeout(..., 3000) of the race is
\* not cleared and stays pending.
settledByFetch ==
    retry' = [waiting |-> FALSE, deadline |-> 0,
              orphanTimers |-> retry.orphanTimers \cup {retry.deadline},
              lateFetches |-> retry.lateFetches]

\* Promise.race settled by the timer: the fetch is not aborted and may still
\* answer.
settledByTimer ==
    retry' = [waiting |-> FALSE, deadline |-> 0,
              orphanTimers |-> retry.orphanTimers,
              lateFetches |-> retry.lateFetches + 1]

\* handleTryAgain behind a button that stays enabled while isRetrying.
handleTryAgain_ButtonEnabled ==
    /\ currentScreen = "connection-error"
    /\ reloadRequests < MaxRetries
    /\ isRetrying' = TRUE
    /\ retry' = [retry EXCEPT !.waiting = TRUE,
                               !.deadline = now + RetryTimeoutMs]
    /\ noteEvent("handleTryAgain", "none")
    /\ UNCHANGED <<now, supVars, monVars, currentScreen, reloadRequests,
                   run, cycleVars>>

\* handleTryAgain up to its await: the button of the connection-error screen
\* is disabled while isRetrying.
handleTryAgain ==
    /\ currentScreen = "connection-error"
    /\ ~isRetrying
    /\ reloadRequests < MaxRetries
    /\ isRetrying' = TRUE
    /\ retry' = [retry EXCEPT !.waiting = TRUE,
                               !.deadline = now + RetryTimeoutMs]
    /\ noteEvent("handleTryAgain", "none")
    /\ UNCHANGED <<now, supVars, monVars, currentScreen, reloadRequests,
                   run, cycleVars>>

\* The continuation taking any answer of the backend for a success.
RetryResponse_AnyStatus(ok) ==
    /\ retry.waiting
    /\ settledByFetch
    /\ isRetrying' = FALSE
    /\ setShouldShowErrorOnTimeout(TRUE)
    /\ reset
    /\ UNCHANGED listeners
    /\ currentScreen' = "webview"
    /\ reloadRequests' = reloadRequests + 1
    /\ noteEvent(IF ok THEN "retry:ok" ELSE "retry:status", "none")
    /\ UNCHANGED <<now, supVars, run, cycleVars>>

\* handleTryAgain after the await, the fetch having answered first with
\* response.ok = ok.
RetryResponse(ok) ==
    /\ retry.waiting
    /\ settledByFetch
    /\ isRetrying' = FALSE
    /\ IF ok
         THEN /\ setShouldShowErrorOnTimeout(TRUE)
              /\ reset
              /\ UNCHANGED listeners
              /\ currentScreen' = "webview"
              /\ reloadRequests' = reloadRequests + 1
         ELSE UNCHANGED <<monVars, currentScreen, reloadRequests>>
    /\ noteEvent(IF ok THEN "retry:ok" ELSE "retry:status", "none")
    /\ UNCHANGED <<now, supVars, run, cycleVars>>

\* handleTryAgain after the await, the fetch having been rejected first.
RetryRejected ==
    /\ retry.waiting
    /\ settledByFetch
    /\ isRetrying' = FALSE
    /\ noteEvent("retry:failed", "none")
    /\ UNCHANGED <<now, supVars, monVars, currentScreen, reloadRequests,
                   run, cycleVars>>

\* The rejection of the timer leaving the busy indicator set.
RetryTimeout_KeepsBusy ==
    /\ retry.waiting
    /\ now >= retry.deadline
    /\ settledByTimer
    /\ UNCHANGED isRetrying
    /\ noteEvent("retry:timeout", "none")
    /\ UNCHANGED <<now, supVars, monVars, currentScreen, reloadRequests,
                   run, cycleVars>>

\* handleTryAgain after the await, the setTimeout(..., 3000) having rejected
\* first.
RetryTimeout ==
    /\ retry.waiting
    /\ now >= retry.deadline
    /\ settledByTimer
    /\ isRetrying' = FALSE
    /\ noteEvent("retry:timeout", "none")
    /\ UNCHANGED <<now, supVars, monVars, currentScreen, reloadRequests,
                   run, cycleVars>>

\* The fetch of a retry answering, or being rejected, after the timer has
\* settled the race: the settled promise ignores it.
RetryLateAnswer ==
    /\ retry.lateFetches > 0
    /\ retry' = [retry EXCEPT !.lateFetches = retry.lateFetches - 1]
    /\ noteEvent("retry:lateAnswer", "none")
    /\ UNCHANGED <<now, supVars, monVars, currentScreen, isRetrying,
                   reloadRequests, run, cycleVars>>

\* The callback of a setTimeout(..., 3000) whose race the fetch has settled:
\* its reject is ignored.
RetryOrphanTimer ==
    /\ \E d \in retry.orphanTimers :
         /\ now >= d
         /\ retry' = [retry EXCEPT !.orphanTimers = retry.orphanTimers \ {d}]
    /\ noteEvent("retry:orphanTimer", "none")
    /\ UNCHANGED <<now, supVars, monVars, currentScreen, isRetrying,
                   reloadRequests, run, cycleVars>>

\* handleManualInstructions: a button of the connection-error screen.
handleManualInstructions ==
    /\ currentScreen = "connection-error"
    /\ currentScreen' = "manual-instructions"
    /\ noteEvent("handleManualInstructions", "none")
    /\ UNCHANGED <<now, supVars, monVars, isRetrying, retry, reloadRequests,
                   run, cycleVars>>

\* handleBackToError: the back button of the manual-instructions screen.
handleBackToError ==
    /\ currentScreen = "manual-instructions"
    /\ currentScreen' = "connection-error"
    /\ noteEvent("handleBackToError", "none")
    /\ UNCHANGED <<now, supVars, monVars, isRetrying, retry, reloadRequests,
                   run, cycleVars>>

\* ---------------------------------------------------------------------------
\* Specifications
\* ---------------------------------------------------------------------------

Init ==
    /\ now = StartNow
    /\ mounted = TRUE
    /\ webViewRef = TRUE
    /\ webKey = 0
    /\ isLoading = TRUE
    /\ lastReloadRef = 0
    /\ reloadAttemptsRef = 0
    /\ pongCounterRef = 0
    /\ subscribed = TRUE
    /\ injections = 0
    /\ hbTimers = <<>>
    /\ cmds = <<>>
    /\ connectionStatus = [isConnected |-> TRUE, loadingTime |-> Undefined,
                           isSlowConnection |-> FALSE]
    /\ loadStartTime = 0
    /\ autoErrorTimeout = NullTimer
    /\ isInitialLoad = TRUE
    /\ shouldShowErrorOnTimeout = TRUE
    /\ listeners = <<"wrapper">>
    /\ delivered = <<>>
    /\ currentScreen = "webview"
    /\ isRetrying = FALSE
    /\ retry = NoRetry
    /\ reloadRequests = 0
    /\ ev = "init"
    /\ evError = "none"
    /\ evStatus = Undefined
    /\ screenBefore = "webview"
    /\ req = "none"
    /\ preAttempts = 0
    /\ lastReqTime = Undefined
    /\ run = <<>>
    /\ cycleOpen = FALSE
    /\ cleanEnd = FALSE
    /\ ceInCycle = FALSE
    /\ timerInCycle = FALSE

\* The supervisor: recovery requests, crash signals, load end.
NextRecovery ==
    \/ Tick(HalfTickMs, MaxTicksRecovery)
    \/ \E status \in HttpStatuses : onHttpError(status)
    \/ onContentProcessDidTerminate
    \/ \E didCrash \in BOOLEAN : onRenderProcessGone(didCrash)
    \/ handleWebViewLoadEnd

SpecRecovery ==
    Init /\ [][NextRecovery]_vars

\* The heartbeat: foreground probes, acknowledgments, their timeouts, next to
\* the recovery requests of HTTP errors and the unmounting of the component.
NextHeartbeat ==
    \/ Tick(TickMs, MaxTicksHeartbeat)
    \/ \E s \in {"active", "background"} : AppStateChange(s)
    \/ handleMessage("pong")
    \/ HeartbeatTimeout
    \/ \E status \in HttpStatuses : onHttpError(status)
    \/ Unmount
    \/ EffectCleanup

SpecHeartbeat ==
    Init /\ [][NextHeartbeat]_vars

\* The monitor and the screens.
NextMonitor ==
    \/ Tick(TickMs, MaxTicksMonitor)
    \/ handleWebViewLoadStart
    \/ handleWebViewLoadEnd
    \/ \E name \in ErrorNames : handleWebViewError(name)
    \/ AutoErrorTimeout
    \/ handleMessage("accessToken")
    \/ handleManualInstructions
    \/ handleBackToError

SpecMonitor ==
    Init /\ [][NextMonitor]_vars

\* The retry of the connection-error screen, with the loads that lead to the
\* screen and away from it.
NextRetry ==
    \/ Tick(RetryTimeoutMs, MaxTicksRetry)
    \/ handleWebViewLoadStart
    \/ handleWebViewLoadEnd
    \/ \E name \in ErrorNames : handleWebViewError(name)
    \/ AutoErrorTimeout
    \/ handleTryAgain
    \/ \E ok \in BOOLEAN : RetryResponse(ok)
    \/ RetryRejected
    \/ RetryTimeout
    \/ RetryLateAnswer
    \/ RetryOrphanTimer

SpecRetry ==
    Init /\ [][NextRetry]_vars

\* The monitor by itself, with the disposal its interface offers (dispose()
\* has no caller in the sources).
NextLifecycle ==
    \/ Tick(TickMs, MaxTicksMonitor)
    \/ handleWebViewLoadStart
    \/ handleWebViewLoadEnd
    \/ \E name \in ErrorNames : handleWebViewError(name)
    \/ AutoErrorTimeout
    \/ handleMessage("accessToken")
    \/ Dispose

SpecLifecycle ==
    Init /\ [][NextLifecycle]_vars

\* The monitor and the screens with the guarantees of the timers: time
\* passes and a setTimeout whose delay has elapsed runs its callback.  The
\* events of the WebView and of the user are under no obligation to happen.
SpecMonitorFair ==
    /\ SpecMonitor
    /\ WF_vars(Tick(TickMs, MaxTicksMonitor))
    /\ WF_vars(AutoErrorTimeout)

\* The publications of the monitor to its listeners.
NextFanOut ==
    \/ Tick(AutoErrorThreshold, MaxTicksFanOut)
    \/ \E listener \in ListenerIds : addListener(listener)
    \/ \E listener \in ListenerIds : removeListener(listener)
    \/ handleWebViewLoadStart
    \/ handleWebViewLoadEnd
    \/ \E name \in ErrorNames : handleWebViewError(name)
    \/ AutoErrorTimeout

SpecFanOut ==
    Init /\ [][NextFanOut]_vars

Next ==
    NextRecovery \/ NextHeartbeat \/ NextMonitor \/ NextRetry \/ NextLifecycle
      \/ NextFanOut

Spec ==
    Init /\ [][Next]_vars

\* ---------------------------------------------------------------------------
\* Properties of the recovery requests (SpecRecovery)
\* ---------------------------------------------------------------------------

\* The renderer commands and the refs a recovery decision writes.
recoveryVars == <<lastReloadRef, reloadAttemptsRef, webKey, cmds>>

\* C1, as stated: a safeReload call (forced or not) made fewer than 1500 ms
\* after the last accepted one, or fewer than 1500 ms after the previous call
\* (the run of requests each within 1500 ms of the previous one), issues no
\* command and leaves lastReloadRef and reloadAttemptsRef unchanged.
C1_EveryRunOfRequests ==
    [][(/\ req' # "none"
        /\ \/ now - lastReloadRef < DebounceMs
           \/ lastReqTime # Undefined /\ now - lastReqTime < DebounceMs)
         => UNCHANGED recoveryVars]_vars

\* C1, as amended: a safeReload call (forced or not) made fewer than 1500 ms
\* after the last accepted one issues no command and leaves lastReloadRef and
\* reloadAttemptsRef unchanged; a call that is acted upon comes at least
\* 1500 ms after the last accepted one and becomes the last accepted one.
C1_Debounce ==
    [][req' # "none" =>
         /\ now - lastReloadRef < DebounceMs => UNCHANGED recoveryVars
         /\ cmds' # cmds =>
               /\ now - lastReloadRef >= DebounceMs
               /\ lastReloadRef' = now]_vars

\* A forced call was dropped inside the window, some time after the accepted
\* one.
C1_Witness ==
    /\ req = "forced"
    /\ lastReloadRef > 0
    /\ 0 < now - lastReloadRef
    /\ now - lastReloadRef < DebounceMs

\* C2: the accepted non-forced safeReload calls since reloadAttemptsRef was
\* last 0 (three consecutive requests at least 1500 ms apart, no onLoadEnd
\* and no forced request in between) issue reloadInPlace, reloadInPlace,
\* recreateSurface in that order, and reloadAttemptsRef is 0 after the third.
C2_Escalation ==
    /\ Len(run) <= EscalationThreshold
    /\ \A i \in 1..Len(run) :
         run[i] = IF i < EscalationThreshold THEN "reloadInPlace"
                                             ELSE "recreateSurface"
    /\ Len(run) = EscalationThreshold => reloadAttemptsRef = 0

\* The third of three HTTP-error requests has just been accepted.
C2_Witness ==
    /\ Len(run) = EscalationThreshold
    /\ ev = "onHttpError"
    /\ req = "request"
    /\ preAttempts = EscalationThreshold - 1
    /\ lastReloadRef = now

\* C3: a forced safeReload call outside the 1500 ms window recreates the
\* surface whatever reloadAttemptsRef is, and leaves reloadAttemptsRef at 0.
C3_ForcedIsHard ==
    [][req' = "forced" /\ now - lastReloadRef >= DebounceMs =>
         /\ webKey' = webKey + 1
         /\ cmds' = Append(cmds, "recreateSurface")
         /\ reloadAttemptsRef' = 0]_vars

\* The crash-terminate signal was accepted with two soft attempts counted.
C3_Witness ==
    /\ ev = "onContentProcessDidTerminate"
    /\ req = "forced"
    /\ preAttempts = EscalationThreshold - 1
    /\ lastReloadRef = now
    /\ reloadAttemptsRef = 0
    /\ cmds[Len(cmds)] = "recreateSurface"

\* C8: whenever the surface is recreated (the key of the WebView changes),
\* by any path, reloadAttemptsRef is 0 immediately afterwards.
C8_HardRemountResets ==
    [][webKey' # webKey => reloadAttemptsRef' = 0]_vars

\* C9: after every onLoadEnd reloadAttemptsRef is 0, and the attempts counted
\* are those of the accepted non-forced requests made since (none made
\* before the completed load counts toward the threshold).
C9_LoadEndResets ==
    /\ ev = "onLoadEnd" => reloadAttemptsRef = 0
    /\ reloadAttemptsRef = Len(run) % EscalationThreshold

\* A load completed with two soft attempts counted.
C9_Witness ==
    /\ ev = "onLoadEnd"
    /\ preAttempts = EscalationThreshold - 1
    /\ reloadAttemptsRef = 0

\* C10: each crash signal of an abnormal terminate changes the state exactly
\* as safeReload(true) does: nothing inside the 1500 ms window, otherwise a
\* recreated surface, lastReloadRef set to the time of the action and
\* reloadAttemptsRef set to 0.
C10_CrashIsForcedRequest ==
    [][ev' \in {"onContentProcessDidTerminate", "onRenderProcessGone:crash"}
         => safeReload(TRUE)]_vars

\* C11: a render-process-gone signal without a crash changes the state exactly
\* as safeReload(false) does: nothing inside the 1500 ms window, otherwise
\* lastReloadRef set to the time of the action, one attempt counted, and the
\* surface recreated on the third attempt, reloaded in place otherwise.
C11_NonCrashIsRequest ==
    [][ev' = "onRenderProcessGone" => safeReload(FALSE)]_vars

\* C12: onHttpError calls safeReload (not forced) if and only if the status
\* code is at least 500 or is 0; for every other status code it issues no
\* command and leaves lastReloadRef and reloadAttemptsRef unchanged.
C12_HttpStatus ==
    [][ev' = "onHttpError" =>
         /\ evStatus' \in HttpStatuses
         /\ (req' = "request") <=> (evStatus' >= 500 \/ evStatus' = 0)
         /\ req' # "forced"
         /\ ~(evStatus' >= 500 \/ evStatus' = 0) =>
               UNCHANGED <<recoveryVars, isLoading>>]_vars

\* A status of 499 came outside the window, soft attempts being counted, and
\* was left alone.
C12_Witness ==
    /\ ev = "onHttpError"
    /\ evStatus = 499
    /\ req = "none"
    /\ reloadAttemptsRef = 1
    /\ now - lastReloadRef >= DebounceMs

\* C27: between two events reloadAttemptsRef is 0, 1 or 2: a request that
\* would bring it to the escalation threshold leaves it at 0, and it is
\* never negative.
C27_AttemptsBelowThreshold ==
    reloadAttemptsRef \in 0..(EscalationThreshold - 1)

\* A non-forced request has found reloadAttemptsRef at 2 and, recreating the
\* surface, left it at 0.
C27_Witness ==
    /\ req = "request"
    /\ preAttempts = EscalationThreshold - 1
    /\ reloadAttemptsRef = 0
    /\ cmds # <<>>
    /\ cmds[Len(cmds)] = "recreateSurface"

\* ---------------------------------------------------------------------------
\* Properties of the heartbeat (SpecHeartbeat)
\* ---------------------------------------------------------------------------

\* C4: when the 1200 ms timer of a probe runs, safeReload() is called (not
\* forced) if and only if pongCounterRef equals the snapshot the probe took;
\* if a pong was counted in between nothing is done.  From the fresh state
\* (reloadAttemptsRef 0, no recovery action before, the WebView attached as
\* it is from construction) the unacknowledged probe issues reloadInPlace.
C4_HeartbeatOutcome ==
    [][ev' = "heartbeatTimeout" =>
         LET before == Head(hbTimers).before
         IN  /\ now = Head(hbTimers).deadline
             /\ (req' = "request") <=> (pongCounterRef = before)
             /\ req' # "forced"
             /\ pongCounterRef # before => UNCHANGED recoveryVars
             /\ (/\ pongCounterRef = before
                 /\ reloadAttemptsRef = 0
                 /\ lastReloadRef = 0
                 /\ webViewRef)
                  => /\ cmds' = Append(cmds, "reloadInPlace")
                     /\ webKey' = webKey
                     /\ reloadAttemptsRef' = 1]_vars

\* An unacknowledged probe has just issued the first command, reloadInPlace,
\* 1200 ms after the foreground transition.
C4_Witness ==
    /\ ev = "heartbeatTimeout"
    /\ req = "request"
    /\ cmds = <<"reloadInPlace">>
    /\ pongCounterRef = 0
    /\ lastReloadRef = now
    /\ now = StartNow + HeartbeatTimeoutMs

\* C24: a change to the foreground adds a probe of its own, with the value
\* of pongCounterRef at that moment and a timer due 1200 ms later, whether
\* or not earlier probes are outstanding; nothing else adds a probe; a probe
\* ends only by its timer, which calls safeReload() at most once, and exactly
\* when the counter still equals the snapshot of that probe: a later probe's
\* snapshot plays no part in the decision.
C24_IndependentProbes ==
    [][/\ ev' = "foreground" =>
            hbTimers' = Append(hbTimers,
                               [before |-> pongCounterRef,
                                deadline |-> now + HeartbeatTimeoutMs])
       /\ ev' = "heartbeatTimeout" =>
            /\ hbTimers # <<>>
            /\ hbTimers' = Tail(hbTimers)
            /\ (req' = "none") <=> (pongCounterRef > Head(hbTimers).before)
            /\ Len(cmds') <= Len(cmds) + 1
       /\ ev' \notin {"foreground", "heartbeatTimeout"} =>
            UNCHANGED hbTimers
       /\ \A i \in 1..Len(hbTimers'), j \in 1..Len(hbTimers') :
            i < j => /\ hbTimers'[i].before <= hbTimers'[j].before
                     /\ hbTimers'[i].deadline <= hbTimers'[j].deadline]_vars

\* The timer of a probe has just run and requested nothing, a pong having
\* been counted after its snapshot, while a later probe started before that
\* timer ran is outstanding with a snapshot that pong does not satisfy.
C24_Witness ==
    /\ ev = "heartbeatTimeout"
    /\ req = "none"
    /\ Len(hbTimers) = 1
    /\ hbTimers[1].before = pongCounterRef
    /\ hbTimers[1].before > 0
    /\ hbTimers[1].deadline > now

\* C20: the callback of a heartbeat timer that runs after the component was
\* unmounted, or while a newer probe is waiting for its own timer, takes no
\* recovery decision: it issues no renderer command and writes neither
\* lastReloadRef nor reloadAttemptsRef.
C20_NoOrphanTimers ==
    [][ev' = "heartbeatTimeout" /\ (~mounted \/ Len(hbTimers) > 1) =>
         UNCHANGED recoveryVars]_vars

\* C23: every heartbeat probe, that is every change of the host to the
\* foreground that the listener sees, makes exactly one call of
\* injectJavaScript, whatever webViewRef.current holds.
C23_OneInjectionPerProbe ==
    [][ev' = "foreground" => injections' = injections + 1]_vars

\* ---------------------------------------------------------------------------
\* Properties of the monitor and the screen (SpecMonitor)
\* ---------------------------------------------------------------------------

\* C5: when onLoadEnd ends a load cycle whose automatic-error timer, armed
\* by the cycle's onLoadStart, has not run yet, the timer is cancelled (it
\* never runs) and no event of that cycle moved the screen to
\* connection-error.
C5_LoadEndBeforeTimer ==
    cleanEnd =>
      /\ autoErrorTimeout = NullTimer
      /\ ev # "autoErrorTimeout"
      /\ ~ceInCycle

\* C6: once isInitialLoad is false no automatic-error timer is armed or
\* pending, onLoadStart arms none, and no onLoadStart, onLoadEnd or onLoadError
\* moves the screen to connection-error except an onLoadError whose error is
\* one of the server-down indicators.
C6_AfterInitialLoad ==
    [][/\ ~isInitialLoad' => autoErrorTimeout' = NullTimer
       /\ (~isInitialLoad /\ ev' \in {"onLoadStart", "onLoadEnd", "onLoadError"}
            /\ enteredCE)
             => /\ ev' = "onLoadError"
                /\ isServerDown(ErrorValue(evError'))]_vars

\* After the initial load an onLoadStart ran with the automatic error enabled
\* and armed no timer.
C6_Witness ==
    /\ ~isInitialLoad
    /\ ev = "onLoadStart"
    /\ shouldShowErrorOnTimeout
    /\ autoErrorTimeout = NullTimer
    /\ currentScreen = "webview"

C15_ErrorOnlyOnInitialLoad ==
    [][currentScreen = "webview" /\ currentScreen' = "connection-error"
         => isInitialLoad]_vars

\* C16: every step that moves the screen from connection-error to webview is
\* either the success of a retry or a publication of the monitor whose status
\* is connected with a loading time of at most 5000 ms.
C16_BackToNormal ==
    [][currentScreen = "connection-error" /\ currentScreen' = "webview" =>
         \/ ev' = "retry:ok"
         \/ /\ ev' \in {"onLoadStart", "onLoadEnd", "onLoadError"}
            /\ \E i \in 1..Len(delivered') :
                 /\ delivered'[i].listener = "wrapper"
                 /\ delivered'[i].status.isConnected
                 /\ delivered'[i].status.loadingTime # Undefined
                 /\ delivered'[i].status.loadingTime <= ScreenThresholdMs]_vars

\* A load that ended within 5000 ms was published and took the screen from
\* connection-error to webview.
C16_Witness ==
    /\ ev = "onLoadEnd"
    /\ screenBefore = "connection-error"
    /\ currentScreen = "webview"
    /\ connectionStatus.isConnected
    /\ connectionStatus.loadingTime > 0
    /\ connectionStatus.loadingTime <= ScreenThresholdMs

\* C19: while shouldShowErrorOnTimeout is false, the callback of the
\* automatic-error timer does not move the screen to connection-error, also
\* when the flag was cleared after the load start that armed the timer.
C19_DisabledTimerIsSilent ==
    [][ev' = "autoErrorTimeout" /\ ~shouldShowErrorOnTimeout =>
         ~(currentScreen # "connection-error"
             /\ currentScreen' = "connection-error")]_vars

\* C26: while isInitialLoad is true, a load that ends (onLoadEnd or
\* onLoadError) more than 5000 ms after its start with the webview screen
\* shown moves the screen to connection-error, whether or not the
\* automatic-error timer had been armed.
C26_SlowInitialLoad ==
    [][/\ ev' \in {"onLoadEnd", "onLoadError"}
       /\ isInitialLoad
       /\ loadStartTime > 0
       /\ now - loadStartTime > ScreenThresholdMs
       /\ currentScreen = "webview"
       => currentScreen' = "connection-error"]_vars

\* C28: the status onLoadStart publishes has no loadingTime, none having
\* been measured in the cycle it starts, and the publication leaves the
\* screen as it is.
C28_FreshLoadingTime ==
    [][ev' = "onLoadStart" =>
         /\ connectionStatus'.loadingTime = Undefined
         /\ currentScreen' = currentScreen]_vars

\* C29: while the manual-instructions screen is shown, the only step that
\* changes the screen is handleBackToError, which shows connection-error.
C29_ManualInstructionsStays ==
    [][currentScreen = "manual-instructions" /\ currentScreen' # currentScreen
         => /\ ev' = "handleBackToError"
            /\ currentScreen' = "connection-error"]_vars

\* C30: once the load whose automatic-error timer showed connection-error
\* has completed by onLoadEnd, the screen comes back to webview at some
\* point with no retry by the user (the specification has no retry),
\* whatever the time the load took.
C30_ScreenRecovers ==
    (ev = "onLoadEnd" /\ timerInCycle) ~> (currentScreen = "webview")

\* ---------------------------------------------------------------------------
\* Properties of the monitor's flag and timer (SpecLifecycle)
\* ---------------------------------------------------------------------------

\* C21: isInitialLoad is cleared by onLoadEnd and by nothing else, and no
\* event sets it again: in every step its new value is its old value, made
\* false when the step is a load end.
C21_InitialLoadFlag ==
    [][isInitialLoad' = (isInitialLoad /\ ev' # "onLoadEnd")]_vars

\* The monitor has been disposed of, and so reset, after the first load end.
C21_Witness ==
    /\ ev = "dispose"
    /\ ~isInitialLoad
    /\ connectionStatus.loadingTime = Undefined

\* C22: the runtime never holds more than one scheduled automatic-error
\* timer, and it holds one exactly while the monitor's handle is pending;
\* onLoadStart leaves a timer pending, due 5000 ms later, exactly when
\* isInitialLoad and shouldShowErrorOnTimeout were true at the call; onLoadEnd,
\* onLoadError and dispose (which runs reset) leave none.
C22_OneTimer ==
    [][/\ autoErrorTimeout'.scheduled = (IF autoErrorTimeout'.pending THEN 1 ELSE 0)
       /\ ev' = "onLoadStart" =>
            /\ autoErrorTimeout'.pending <=>
                  (isInitialLoad /\ shouldShowErrorOnTimeout)
            /\ autoErrorTimeout'.pending =>
                  autoErrorTimeout'.deadline = now + AutoErrorThreshold
       /\ ev' \in {"onLoadEnd", "onLoadError", "dispose"} =>
            autoErrorTimeout' = NullTimer]_vars

\* A load start has armed a timer later than the timer of the first load
\* start could be.
C22_Witness ==
    /\ ev = "onLoadStart"
    /\ autoErrorTimeout.pending
    /\ autoErrorTimeout.scheduled = 1
    /\ autoErrorTimeout.deadline > StartNow + AutoErrorThreshold

\* ---------------------------------------------------------------------------
\* Properties of the retry (SpecRetry)
\* ---------------------------------------------------------------------------

\* C17: a retry whose probe is rejected, answers with a status that is not a
\* success, or has not answered when the 3000 ms timer runs changes nothing
\* but the busy indicator: the screen, shouldShowErrorOnTimeout and the rest
\* of the monitor keep their values and no reload is requested of the
\* WebView; the same holds of an answer arriving after the timer has run.
C17_RetryFailure ==
    [][ev' \in {"retry:status", "retry:failed", "retry:timeout",
                "retry:lateAnswer"} =>
         /\ currentScreen' = currentScreen
         /\ reloadRequests' = reloadRequests
         /\ UNCHANGED <<monVars, supVars>>
         /\ isRetrying' = IF ev' = "retry:lateAnswer" THEN isRetrying
                                                       ELSE FALSE]_vars

\* The probe of a retry has answered after the timer ended the retry, and the
\* connection-error screen is still shown, no reload having been requested.
C17_Witness ==
    /\ ev = "retry:lateAnswer"
    /\ currentScreen = "connection-error"
    /\ reloadRequests = 0
    /\ ~isRetrying

\* C18: a retry ends no later than 3000 ms after it was started, whether or
\* not its probe answers: the busy indicator is set exactly while the retry
\* awaits its race, the timer of the race is due at most 3000 ms ahead and
\* never in the past, and when it is due its callback can run and end the
\* retry.
C18_RetryTerminates ==
    /\ isRetrying <=> retry.waiting
    /\ retry.waiting =>
         /\ retry.deadline - RetryTimeoutMs <= now
         /\ now <= retry.deadline
         /\ now = retry.deadline => ENABLED RetryTimeout

\* A retry has been ended by its timer, the probe not having answered.
C18_Witness ==
    /\ ev = "retry:timeout"
    /\ ~isRetrying
    /\ ~retry.waiting
    /\ retry.lateFetches > 0

\* C25, as claimed: on the connection-error screen a retry can be requested
\* while another is outstanding, and the busy indicator is set whenever a
\* retry is outstanding.
C25_ConcurrentRetries ==
    /\ (currentScreen = "connection-error" /\ retry.waiting
           /\ reloadRequests < MaxRetries) => ENABLED handleTryAgain
    /\ retry.waiting => isRetrying

\* C25, as the code has it: a retry is requested only while none is
\* outstanding, the button being disabled while isRetrying, so at most one
\* retry awaits its race; the busy indicator is set by the request and stays
\* set exactly as long as that retry is outstanding.
C25_OneRetryAtATime ==
    [][/\ ev' = "handleTryAgain" =>
            /\ ~isRetrying /\ ~retry.waiting
            /\ isRetrying' /\ retry'.waiting
            /\ retry'.deadline = now + RetryTimeoutMs
       /\ isRetrying' <=> retry'.waiting]_vars

\* A retry has been requested after an earlier one was ended by its timer,
\* the probe of the earlier one not having answered yet.
C25_Witness ==
    /\ ev = "handleTryAgain"
    /\ isRetrying
    /\ retry.waiting
    /\ retry.lateFetches > 0

\* ---------------------------------------------------------------------------
\* Properties of the publications (SpecFanOut)
\* ---------------------------------------------------------------------------

====
